---- MODULE Spec2Model ----
(***************************************************************************)
(* collectd, utils_curl_stats.c: the table of cURL transfer statistics,    *)
(* the construction of a curl_stats_t from a configuration block and the   *)
(* dispatch of the enabled statistics to the daemon.                       *)
(*                                                                         *)
(* C strings are sequences of one-character strings.  A pointer is either  *)
(* NULL or a record holding the object it points to.                       *)
(***************************************************************************)
EXTENDS Integers, Sequences, FiniteSets, TLC

VARIABLES
  pc,      \* "idle": no curl_stats_t exists; "built": curl_stats_from_config
           \* has returned; "dispatched": curl_stats_dispatch has returned
  ci,      \* the oconfig_item_t * last given to curl_stats_from_config
  s,       \* the curl_stats_t * the caller holds
  curl,    \* the CURL * given to the last curl_stats_dispatch
  args,    \* hostname, plugin, plugin_instance, instance_prefix of that call
  getinfo, \* the CURLINFO of every curl_easy_getinfo call of that dispatch
  sink,    \* the value lists handed to plugin_dispatch_values, each with
           \* the status the daemon returned for it
  ret      \* the value the last curl_stats_dispatch returned

vars == <<pc, ci, s, curl, args, getinfo, sink, ret>>

----------------------------------------------------------------------------
(* Pointers and strings *)

NULL == [null |-> TRUE]

\* A non-NULL char *: the characters before the terminating NUL.
CStr(chars) == [chars |-> chars]

UpperToLower ==
  [A |-> "a", B |-> "b", C |-> "c", D |-> "d", E |-> "e", F |-> "f", G |-> "g",
   H |-> "h", I |-> "i", J |-> "j", K |-> "k", L |-> "l", M |-> "m", N |-> "n",
   O |-> "o", P |-> "p", Q |-> "q", R |-> "r", S |-> "s", T |-> "t", U |-> "u",
   V |-> "v", W |-> "w", X |-> "x", Y |-> "y", Z |-> "z"]

tolower(c) == IF c \in DOMAIN UpperToLower THEN UpperToLower[c] ELSE c

\* strcasecmp: 0 when the two strings are equal up to the case of their
\* letters; otherwise non-zero (the sign is not used by any caller here).
strcasecmp(a, b) ==
  IF /\ Len(a) = Len(b)
     /\ \A i \in 1..Len(a) : tolower(a[i]) = tolower(b[i])
  THEN 0
  ELSE 1

\* IS_TRUE and IS_FALSE of common.h: the words the daemon reads as booleans.
IS_TRUE(str) ==
  \/ strcasecmp(<<"t","r","u","e">>, str) = 0
  \/ strcasecmp(<<"y","e","s">>, str) = 0
  \/ strcasecmp(<<"o","n">>, str) = 0

IS_FALSE(str) ==
  \/ strcasecmp(<<"f","a","l","s","e">>, str) = 0
  \/ strcasecmp(<<"n","o">>, str) = 0
  \/ strcasecmp(<<"o","f","f">>, str) = 0

----------------------------------------------------------------------------
(* struct curl_stats_s and the table field_specs *)

curl_stats_s ==
  << "total_time",
     "namelookup_time",
     "connect_time",
     "pretransfer_time",
     "size_upload",
     "size_download",
     "speed_download",
     "speed_upload",
     "header_size",
     "request_size",
     "content_length_download",
     "content_length_upload",
     "starttransfer_time",
     "redirect_time",
     "redirect_count",
     "num_connects",
     "appconnect_time" >>


\* offsetof (curl_stats_t, member): the members are bools of one byte each.
offsetof(member) ==
  (CHOOSE i \in 1..Len(curl_stats_s) : curl_stats_s[i] = member) - 1

\* The member stored at a byte offset of the struct.
member_at(offset) == curl_stats_s[offset + 1]

SPEC(member, name, dispatcher, type, info) ==
  [name |-> name, offset |-> offsetof(member), dispatcher |-> dispatcher,
   type |-> type, info |-> info]

field_specs ==
  << SPEC("total_time",
          <<"t","o","t","a","l","_","t","i","m","e">>,
          "dispatch_gauge", "duration", "CURLINFO_TOTAL_TIME"),
     SPEC("namelookup_time",
          <<"n","a","m","e","l","o","o","k","u","p","_","t","i","m","e">>,
          "dispatch_gauge", "duration", "CURLINFO_NAMELOOKUP_TIME"),
     SPEC("connect_time",
          <<"c","o","n","n","e","c","t","_","t","i","m","e">>,
          "dispatch_gauge", "duration", "CURLINFO_CONNECT_TIME"),
     SPEC("pretransfer_time",
          <<"p","r","e","t","r","a","n","s","f","e","r","_","t","i","m","e">>,
          "dispatch_gauge", "duration", "CURLINFO_PRETRANSFER_TIME"),
     SPEC("size_upload",
          <<"s","i","z","e","_","u","p","l","o","a","d">>,
          "dispatch_gauge", "bytes", "CURLINFO_SIZE_UPLOAD"),
     SPEC("size_download",
          <<"s","i","z","e","_","d","o","w","n","l","o","a","d">>,
          "dispatch_gauge", "bytes", "CURLINFO_SIZE_DOWNLOAD"),
     SPEC("speed_download",
          <<"s","p","e","e","d","_","d","o","w","n","l","o","a","d">>,
          "dispatch_speed", "bitrate", "CURLINFO_SPEED_DOWNLOAD"),
     SPEC("speed_upload",
          <<"s","p","e","e","d","_","u","p","l","o","a","d">>,
          "dispatch_speed", "bitrate", "CURLINFO_SPEED_UPLOAD"),
     SPEC("header_size",
          <<"h","e","a","d","e","r","_","s","i","z","e">>,
          "dispatch_size", "bytes", "CURLINFO_HEADER_SIZE"),
     SPEC("request_size",
          <<"r","e","q","u","e","s","t","_","s","i","z","e">>,
          "dispatch_size", "bytes", "CURLINFO_REQUEST_SIZE"),
     SPEC("content_length_download",
          <<"c","o","n","t","e","n","t","_","l","e","n","g","t","h","_","d","o","w","n","l","o","a","d">>,
          "dispatch_gauge", "bytes", "CURLINFO_CONTENT_LENGTH_DOWNLOAD"),
     SPEC("content_length_upload",
          <<"c","o","n","t","e","n","t","_","l","e","n","g","t","h","_","u","p","l","o","a","d">>,
          "dispatch_gauge", "bytes", "CURLINFO_CONTENT_LENGTH_UPLOAD"),
     SPEC("starttransfer_time",
          <<"s","t","a","r","t","t","r","a","n","s","f","e","r","_","t","i","m","e">>,
          "dispatch_gauge", "duration", "CURLINFO_STARTTRANSFER_TIME"),
     SPEC("redirect_time",
          <<"r","e","d","i","r","e","c","t","_","t","i","m","e">>,
          "dispatch_gauge", "duration", "CURLINFO_REDIRECT_TIME"),
     SPEC("redirect_count",
          <<"r","e","d","i","r","e","c","t","_","c","o","u","n","t">>,
          "dispatch_size", "count", "CURLINFO_REDIRECT_COUNT"),
     SPEC("num_connects",
          <<"n","u","m","_","c","o","n","n","e","c","t","s">>,
          "dispatch_size", "count", "CURLINFO_NUM_CONNECTS"),
     SPEC("appconnect_time",
          <<"a","p","p","c","o","n","n","e","c","t","_","t","i","m","e">>,
          "dispatch_gauge", "duration", "CURLINFO_APPCONNECT_TIME") >>

\* STATIC_ARRAY_SIZE (field_specs)
NumFields == Len(field_specs)

\* field_specs[field] for the C index field, which counts from 0.
spec_at(field) == field_specs[field + 1]

\* A slip in the allocation: memory that is not zeroed (every byte set).
calloc_stats_nonzero == [m \in {curl_stats_s[i] : i \in 1..Len(curl_stats_s)} |-> TRUE]

\* calloc (sizeof (*s), 1): a struct whose every byte is zero.
calloc_stats == [m \in {curl_stats_s[i] : i \in 1..Len(curl_stats_s)} |-> FALSE]

\* A slip in enable_field: the byte after the field's own is written.
enable_field_next(st, offset) ==
  [st EXCEPT ![member_at((offset + 1) % Len(curl_stats_s))] = TRUE]

enable_field(st, offset) == [st EXCEPT ![member_at(offset)] = TRUE]

\* A slip in field_enabled: the byte after the field's own is read.
field_enabled_next(st, offset) == st[member_at((offset + 1) % Len(curl_stats_s))]

field_enabled(st, offset) == st[member_at(offset)]

----------------------------------------------------------------------------
(* curl_stats_from_config *)

OCONFIG_TYPE_STRING == "OCONFIG_TYPE_STRING"
OCONFIG_TYPE_NUMBER == "OCONFIG_TYPE_NUMBER"
OCONFIG_TYPE_BOOLEAN == "OCONFIG_TYPE_BOOLEAN"

\* A slip in the lookup: strncasecmp over the length of the key, so that a
\* key matches every name it is a prefix of.
RECURSIVE find_field_prefix(_, _)
find_field_prefix(key, field) ==
  IF field < NumFields
  THEN IF /\ Len(key) <= Len(spec_at(field).name)
          /\ strcasecmp(key, SubSeq(spec_at(field).name, 1, Len(key))) = 0
       THEN field
       ELSE find_field_prefix(key, field + 1)
  ELSE field

\* The loop over field_specs that looks a key up: the index of the first
\* entry whose name compares equal, or NumFields when there is none.
RECURSIVE find_field(_, _)
find_field(key, field) ==
  IF field < NumFields
  THEN IF strcasecmp(key, spec_at(field).name) = 0
       THEN field
       ELSE find_field(key, field + 1)
  ELSE field

\* The argument check of one child: exactly one value, a string or a boolean.
bad_argument(c) ==
  \/ c.values_num # 1
  \/ /\ c.values[1].type # OCONFIG_TYPE_STRING
     /\ c.values[1].type # OCONFIG_TYPE_BOOLEAN

\* The condition under which a child enables its field.
value_is_true(c) ==
  \/ /\ c.values[1].type = OCONFIG_TYPE_STRING
     /\ IS_TRUE(c.values[1].string)
  \/ /\ c.values[1].type = OCONFIG_TYPE_BOOLEAN
     /\ c.values[1].boolean

\* The loop over ci->children, from child i on, with st the struct so far.
RECURSIVE config_loop(_, _, _)
config_loop(cfg, i, st) ==
  IF i < cfg.children_num
  THEN LET c == cfg.children[i + 1]
           field == find_field(c.key, 0)
       IN IF field >= NumFields
          THEN NULL
          ELSE IF bad_argument(c)
               THEN NULL
               ELSE config_loop(cfg, i + 1,
                                IF value_is_true(c)
                                THEN enable_field(st, spec_at(field).offset)
                                ELSE st)
  ELSE st

\* The value curl_stats_from_config returns; calloc_ok says whether the
\* allocation succeeded.
from_config(cfg, calloc_ok) ==
  IF cfg = NULL
  THEN NULL
  ELSE IF ~calloc_ok
       THEN NULL
       ELSE config_loop(cfg, 0, calloc_stats)

----------------------------------------------------------------------------
(* The dispatchers *)

CURLE_OK == "CURLE_OK"
CURLE_UNKNOWN_OPTION == "CURLE_UNKNOWN_OPTION"

\* curl_easy_getinfo (curl, info, &out): the code the handle answers with
\* and the number it stores.
curl_easy_getinfo(handle, info) ==
  [code |-> handle.code[info], out |-> handle.value[info]]

\* (double)raw: every long of the model is far below 2^53 and so is the
\* same number as a double.
long_to_double(raw) == raw

\* plugin_dispatch_values (vl): the daemon is given the value list and
\* answers with daemon_status.
plugin_dispatch_values(vl, daemon_status) == [vl |-> vl, status |-> daemon_status]

\* A slip in dispatch_gauge: the code of curl_easy_getinfo is not looked at.
dispatch_gauge_unchecked(handle, info, vl, daemon_status) ==
  LET got == curl_easy_getinfo(handle, info)
      vl1 == [vl EXCEPT !.values = <<got.out>>, !.values_len = 1]
  IN [status |-> daemon_status, vl |-> vl1,
      calls |-> <<plugin_dispatch_values(vl1, daemon_status)>>]

\* A slip in dispatch_speed: the speed is left in bytes per second.
dispatch_speed_bytes(handle, info, vl, daemon_status) ==
  LET got == curl_easy_getinfo(handle, info)
      vl1 == [vl EXCEPT !.values = <<got.out>>, !.values_len = 1]
  IN IF got.code # CURLE_OK
     THEN [status |-> -1, vl |-> vl, calls |-> <<>>]
     ELSE [status |-> daemon_status, vl |-> vl1,
           calls |-> <<plugin_dispatch_values(vl1, daemon_status)>>]

\* Each dispatcher yields its return value, the value list as it leaves it
\* and the calls it made to plugin_dispatch_values.
dispatch_gauge(handle, info, vl, daemon_status) ==
  LET got == curl_easy_getinfo(handle, info)
      vl1 == [vl EXCEPT !.values = <<got.out>>, !.values_len = 1]
  IN IF got.code # CURLE_OK
     THEN [status |-> -1, vl |-> vl, calls |-> <<>>]
     ELSE [status |-> daemon_status, vl |-> vl1,
           calls |-> <<plugin_dispatch_values(vl1, daemon_status)>>]

dispatch_speed(handle, info, vl, daemon_status) ==
  LET got == curl_easy_getinfo(handle, info)
      vl1 == [vl EXCEPT !.values = <<got.out * 8>>, !.values_len = 1]
  IN IF got.code # CURLE_OK
     THEN [status |-> -1, vl |-> vl, calls |-> <<>>]
     ELSE [status |-> daemon_status, vl |-> vl1,
           calls |-> <<plugin_dispatch_values(vl1, daemon_status)>>]

dispatch_size(handle, info, vl, daemon_status) ==
  LET got == curl_easy_getinfo(handle, info)
      vl1 == [vl EXCEPT !.values = <<long_to_double(got.out)>>, !.values_len = 1]
  IN IF got.code # CURLE_OK
     THEN [status |-> -1, vl |-> vl, calls |-> <<>>]
     ELSE [status |-> daemon_status, vl |-> vl1,
           calls |-> <<plugin_dispatch_values(vl1, daemon_status)>>]

\* field_specs[field].dispatcher (curl, info, &vl)
call_dispatcher(dispatcher, handle, info, vl, daemon_status) ==
  CASE dispatcher = "dispatch_gauge" -> dispatch_gauge(handle, info, vl, daemon_status)
    [] dispatcher = "dispatch_speed" -> dispatch_speed(handle, info, vl, daemon_status)
    [] dispatcher = "dispatch_size" -> dispatch_size(handle, info, vl, daemon_status)

----------------------------------------------------------------------------
(* curl_stats_dispatch *)

\* VALUE_LIST_INIT: no values and every name unset.
VALUE_LIST_INIT ==
  [values |-> <<>>, values_len |-> 0, host |-> <<>>, plugin |-> <<>>,
   plugin_instance |-> <<>>, type |-> "", type_instance |-> <<>>]

\* sstrncpy (dest, src, sizeof (dest)) for a src that fits dest.
sstrncpy(src) == src

\* ssnprintf (dest, sizeof (dest), "%s%s", a, b) for a and b that fit dest.
ssnprintf_ss(a, b) == a \o b

\* The copies of hostname, plugin and plugin_instance into vl.
set_names(vl, a) ==
  LET vl1 == IF a.hostname # NULL
             THEN [vl EXCEPT !.host = sstrncpy(a.hostname.chars)]
             ELSE vl
      vl2 == IF a.plugin # NULL
             THEN [vl1 EXCEPT !.plugin = sstrncpy(a.plugin.chars)]
             ELSE vl1
  IN IF a.plugin_instance # NULL
     THEN [vl2 EXCEPT !.plugin_instance = sstrncpy(a.plugin_instance.chars)]
     ELSE vl2

\* The value list of one field before its dispatcher runs.
prepare_field(vl, field, instance_prefix) ==
  [vl EXCEPT !.type = sstrncpy(spec_at(field).type),
             !.type_instance =
                ssnprintf_ss(IF instance_prefix # NULL
                             THEN instance_prefix.chars
                             ELSE <<>>,
                             spec_at(field).name),
             !.values = <<>>,
             !.values_len = 0]

\* The loop over field_specs from index field on.  daemon[n] is the status
\* the daemon gives the n-th value list of this call; infos and calls are
\* the curl_easy_getinfo and plugin_dispatch_values calls made so far.
RECURSIVE dispatch_loop(_, _, _, _, _, _, _, _)
dispatch_loop(st, handle, a, daemon, field, vl, infos, calls) ==
  IF field < NumFields
  THEN IF ~field_enabled(st, spec_at(field).offset)
       THEN dispatch_loop(st, handle, a, daemon, field + 1, vl, infos, calls)
       ELSE LET r == call_dispatcher(spec_at(field).dispatcher, handle,
                                     spec_at(field).info,
                                     prepare_field(vl, field, a.instance_prefix),
                                     daemon[Len(calls) + 1])
                infos1 == Append(infos, spec_at(field).info)
                calls1 == calls \o r.calls
            IN IF r.status < 0
               THEN [ret |-> r.status, getinfo |-> infos1, sink |-> calls1]
               ELSE dispatch_loop(st, handle, a, daemon, field + 1, r.vl,
                                  infos1, calls1)
  ELSE [ret |-> 0, getinfo |-> infos, sink |-> calls]

\* One call of curl_stats_dispatch: its return value and the calls it made.
curl_stats_dispatch(st, handle, a, daemon) ==
  IF st = NULL
  THEN [ret |-> 0, getinfo |-> <<>>, sink |-> <<>>]
  ELSE IF handle = NULL
       THEN [ret |-> -1, getinfo |-> <<>>, sink |-> <<>>]
       ELSE dispatch_loop(st, handle, a, daemon, 0,
                          set_names(VALUE_LIST_INIT, a), <<>>, <<>>)

----------------------------------------------------------------------------
(* The inputs the model draws *)

\* The most children a configuration block has.
MaxChildren == 3

string_value(chars) ==
  [type |-> OCONFIG_TYPE_STRING, string |-> chars, number |-> 0, boolean |-> FALSE]
number_value(n) ==
  [type |-> OCONFIG_TYPE_NUMBER, string |-> <<>>, number |-> n, boolean |-> FALSE]
boolean_value(b) ==
  [type |-> OCONFIG_TYPE_BOOLEAN, string |-> <<>>, number |-> 0, boolean |-> b]

oconfig_item(key, values) ==
  [key |-> key, values |-> values, values_num |-> Len(values)]

key_total_time == <<"t","o","t","a","l","_","t","i","m","e">>
key_Total_Time == <<"T","o","t","a","l","_","T","i","m","e">>
key_speed_upload == <<"s","p","e","e","d","_","u","p","l","o","a","d">>
key_num_connects == <<"n","u","m","_","c","o","n","n","e","c","t","s">>
\* A proper prefix of a field name: no field has this name.
key_total_tim == <<"t","o","t","a","l","_","t","i","m">>

\* The children a block is made of: every field key with either boolean, a
\* key in other case with a string read as true, a string that is no
\* boolean word, an unknown key, and the arguments that are no single
\* boolean.
Children ==
  {oconfig_item(k, <<boolean_value(b)>>) :
     k \in {key_total_time, key_speed_upload, key_num_connects}, b \in BOOLEAN}
  \cup {oconfig_item(key_Total_Time, <<string_value(<<"O","n">>)>>),
        oconfig_item(key_total_time, <<string_value(<<"b","a","n","a","n","a">>)>>),
        oconfig_item(key_total_tim, <<boolean_value(TRUE)>>),
        oconfig_item(key_speed_upload, <<>>),
        oconfig_item(key_speed_upload, <<number_value(1)>>),
        oconfig_item(key_speed_upload, <<boolean_value(TRUE), boolean_value(FALSE)>>)}

ChildLists == UNION {[1..n -> Children] : n \in 0..MaxChildren}

\* The oconfig_item_t * values given to curl_stats_from_config.
Configs ==
  {NULL} \cup {[children |-> l, children_num |-> Len(l)] : l \in ChildLists}

Infos == {field_specs[i].info : i \in 1..NumFields}

\* The fields the keys above name, as C indexes into field_specs.
KeyFields ==
  {find_field(k, 0) : k \in {key_total_time, key_speed_upload, key_num_connects}}

\* The numbers a handle holds: the field's index above a base.
Snapshots ==
  {[i \in Infos |-> base + (CHOOSE f \in 0..(NumFields - 1) : spec_at(f).info = i)] :
     base \in {-1, 6}}

AllOk == [i \in Infos |-> CURLE_OK]

\* The answers of a handle whose query of field f fails.
FailsAt(f) ==
  [i \in Infos |-> IF i = spec_at(f).info THEN CURLE_UNKNOWN_OPTION ELSE CURLE_OK]

FirstSnapshot == CHOOSE v \in Snapshots : TRUE

\* The CURL * values given to curl_stats_dispatch: NULL, a handle that
\* answers every query, with either snapshot, and a handle that fails the
\* query of one field.
Handles ==
  {NULL}
  \cup {[code |-> AllOk, value |-> v] : v \in Snapshots}
  \cup {[code |-> FailsAt(f), value |-> FirstSnapshot] : f \in KeyFields}

\* The statuses plugin_dispatch_values returns: 0, a negative one and a
\* positive errno such as ENOMEM.
FailureStatuses == {-1, 12}

\* The daemon: it accepts every value list, or fails the n-th of a call.
Daemons ==
  {[n \in 1..NumFields |-> 0]}
  \cup {[n \in 1..NumFields |-> IF n = k THEN st ELSE 0] :
          k \in 1..Cardinality(KeyFields), st \in FailureStatuses}

NoArgs ==
  [hostname |-> NULL, plugin |-> NULL, plugin_instance |-> NULL,
   instance_prefix |-> NULL]

\* hostname, plugin, plugin_instance and instance_prefix of a call.
CallArgs ==
  {NoArgs,
   [hostname |-> CStr(<<"h">>), plugin |-> CStr(<<"c","u","r","l">>),
    plugin_instance |-> CStr(<<"p","i">>), instance_prefix |-> CStr(<<"x","_">>)]}

----------------------------------------------------------------------------
(* The state machine *)

Init ==
  /\ pc = "idle"
  /\ ci = NULL
  /\ s = NULL
  /\ curl = NULL
  /\ args = NoArgs
  /\ getinfo = <<>>
  /\ sink = <<>>
  /\ ret = 0

\* s = curl_stats_from_config (ci)
FromConfig ==
  /\ pc = "idle"
  /\ \E cfg \in Configs, calloc_ok \in BOOLEAN :
       /\ ci' = cfg
       /\ s' = from_config(cfg, calloc_ok)
  /\ pc' = "built"
  /\ UNCHANGED <<curl, args, getinfo, sink, ret>>

\* ret = curl_stats_dispatch (s, curl, hostname, plugin, plugin_instance,
\*                            instance_prefix)
Dispatch ==
  /\ pc = "built"
  /\ \E handle \in Handles, a \in CallArgs, daemon \in Daemons :
       LET r == curl_stats_dispatch(s, handle, a, daemon)
       IN /\ curl' = handle
          /\ args' = a
          /\ getinfo' = r.getinfo
          /\ sink' = r.sink
          /\ ret' = r.ret
  /\ pc' = "dispatched"
  /\ UNCHANGED <<ci, s>>

\* curl_stats_destroy (s), after which the caller starts over.
Destroy ==
  /\ pc \in {"built", "dispatched"}
  /\ pc' = "idle"
  /\ ci' = NULL
  /\ s' = NULL
  /\ curl' = NULL
  /\ args' = NoArgs
  /\ getinfo' = <<>>
  /\ sink' = <<>>
  /\ ret' = 0

Next == FromConfig \/ Dispatch \/ Destroy

Spec == Init /\ [][Next]_vars


----------------------------------------------------------------------------
(* What the properties below speak of *)

\* The child names field f (a C index): its key is the field's name up to case.
Names(c, f) == strcasecmp(c.key, spec_at(f).name) = 0

FieldIndexes == 0..(NumFields - 1)

\* The key of the child is the name of no field.
UnknownKey(c) == \A f \in FieldIndexes : ~Names(c, f)

\* The child carries exactly one value, a boolean or a string.
SingleBooleanOrString(c) ==
  /\ c.values_num = 1
  /\ c.values[1].type \in {OCONFIG_TYPE_BOOLEAN, OCONFIG_TYPE_STRING}

\* The child carries a true boolean or a string that reads as true.
CarriesTrue(c) ==
  /\ c.values_num = 1
  /\ \/ c.values[1].type = OCONFIG_TYPE_BOOLEAN /\ c.values[1].boolean
     \/ c.values[1].type = OCONFIG_TYPE_STRING /\ IS_TRUE(c.values[1].string)

\* The child carries one value that is a boolean or a word read as a boolean.
CarriesBoolean(c) ==
  /\ c.values_num = 1
  /\ \/ c.values[1].type = OCONFIG_TYPE_BOOLEAN
     \/ /\ c.values[1].type = OCONFIG_TYPE_STRING
        /\ IS_TRUE(c.values[1].string) \/ IS_FALSE(c.values[1].string)

ValidConfig(cfg) ==
  \A i \in 1..cfg.children_num :
    ~UnknownKey(cfg.children[i]) /\ SingleBooleanOrString(cfg.children[i])

\* Every child names a field and carries a boolean or a boolean word.
BooleanConfig(cfg) ==
  \A i \in 1..cfg.children_num :
    ~UnknownKey(cfg.children[i]) /\ CarriesBoolean(cfg.children[i])

\* No field is named by two children.
NoFieldTwice(cfg) ==
  \A i, j \in 1..cfg.children_num :
    \A f \in FieldIndexes :
      Names(cfg.children[i], f) /\ Names(cfg.children[j], f) => i = j

\* The flag of field f in a curl_stats_t, read from the struct itself.
IsOn(st, f) == st[curl_stats_s[spec_at(f).offset + 1]]

\* The fields that are on, in the order of field_specs.
RECURSIVE OnFrom(_, _)
OnFrom(st, f) ==
  IF f >= NumFields
  THEN <<>>
  ELSE (IF IsOn(st, f) THEN <<f>> ELSE <<>>) \o OnFrom(st, f + 1)

OnFields(st) == OnFrom(st, 0)

\* The type instance of field f under the prefix of the last call.
TypeInstance(f) ==
  (IF args.instance_prefix = NULL THEN <<>> ELSE args.instance_prefix.chars)
    \o spec_at(f).name

\* The field a CURLINFO belongs to.
FieldOfInfo(info) == CHOOSE f \in FieldIndexes : spec_at(f).info = info

ChildOrders(n) == {p \in [1..n -> 1..n] : \A i, j \in 1..n : p[i] = p[j] => i = j}

Permuted(cfg, p) ==
  [children |-> [i \in 1..cfg.children_num |-> cfg.children[p[i]]],
   children_num |-> cfg.children_num]

Built == pc \in {"built", "dispatched"}

----------------------------------------------------------------------------
(* The properties *)

\* C1: a configuration with a child whose key is the name of no field, at
\* any position and among any other children, makes curl_stats_from_config
\* return NULL.
C1_UnknownKeyFails ==
  (Built /\ ci # NULL /\ \E i \in 1..ci.children_num : UnknownKey(ci.children[i]))
    => s = NULL

\* Reached: the unknown key is the last child, after children that each
\* name a field and turn it on.
C1_Witness ==
  /\ pc = "built"
  /\ ci # NULL
  /\ ci.children_num >= 2
  /\ UnknownKey(ci.children[ci.children_num])
  /\ \A i \in 1..(ci.children_num - 1) :
       ~UnknownKey(ci.children[i]) /\ CarriesTrue(ci.children[i])
  /\ s = NULL

\* C2, as claimed: a child that names a field and carries no value, several
\* values, or one value that is neither a boolean nor a word read as a
\* boolean makes curl_stats_from_config return NULL.
C2_BadValueFails ==
  (Built /\ ci # NULL
     /\ \E i \in 1..ci.children_num :
          ~UnknownKey(ci.children[i]) /\ ~CarriesBoolean(ci.children[i]))
    => s = NULL

\* C3: for a valid configuration that names no field twice, a field is on
\* in the returned curl_stats_t exactly if a child names it and carries a
\* true value, and every permutation of the children gives the same result.
C3_EnabledExactlyTrue ==
  (Built /\ ci # NULL /\ s # NULL /\ ValidConfig(ci) /\ NoFieldTwice(ci))
    => /\ \A f \in FieldIndexes :
            IsOn(s, f) <=> \E i \in 1..ci.children_num :
                             Names(ci.children[i], f) /\ CarriesTrue(ci.children[i])
       /\ pc = "built" =>
            \A p \in ChildOrders(ci.children_num) :
              from_config(Permuted(ci, p), TRUE) = s

\* Reached: three children for three fields, one turned on by a string, one
\* turned on by a boolean and one given false.
C3_Witness ==
  /\ pc = "built"
  /\ ci # NULL
  /\ s # NULL
  /\ ValidConfig(ci)
  /\ NoFieldTwice(ci)
  /\ ci.children_num = 3
  /\ \E i \in 1..3 : ci.children[i].values[1].type = OCONFIG_TYPE_STRING
                     /\ CarriesTrue(ci.children[i])
  /\ \E i \in 1..3 : ci.children[i].values[1].type = OCONFIG_TYPE_BOOLEAN
                     /\ CarriesTrue(ci.children[i])
  /\ \E i \in 1..3 : ~CarriesTrue(ci.children[i])
  /\ Len(OnFields(s)) = 2

\* C4, as claimed: when a valid configuration names a field in several
\* children, the field is on exactly if the last child naming it carries a
\* true value.
C4_LastEntryWins ==
  (Built /\ ci # NULL /\ s # NULL /\ BooleanConfig(ci))
    => \A f \in FieldIndexes :
         \A i \in 1..ci.children_num :
           (/\ Names(ci.children[i], f)
            /\ \A j \in (i + 1)..ci.children_num : ~Names(ci.children[j], f))
             => (IsOn(s, f) <=> CarriesTrue(ci.children[i]))

\* The type instances of the value lists handed over, in call order.
SinkInstances == [i \in 1..Len(sink) |-> sink[i].vl.type_instance]

\* The type instances of the first n fields of a sequence of fields.
InstancesOf(fields, n) == [i \in 1..n |-> TypeInstance(fields[i])]

\* The call ran its loop: neither pointer was NULL.
LoopRan == pc = "dispatched" /\ s # NULL /\ curl # NULL

\* C5: when every curl_easy_getinfo and every plugin_dispatch_values of a
\* call succeeds, the value lists handed over are those of the enabled
\* fields, one each, in the order of field_specs, and the call returns 0.
C5_RegistryOrder ==
  (/\ LoopRan
   /\ \A f \in FieldIndexes : IsOn(s, f) => curl.code[spec_at(f).info] = CURLE_OK
   /\ \A i \in 1..Len(sink) : sink[i].status = 0)
    => /\ SinkInstances = InstancesOf(OnFields(s), Len(OnFields(s)))
       /\ ret = 0

\* Reached: three fields, enabled in the configuration in the reverse of
\* their order in field_specs, all dispatched.
C5_Witness ==
  /\ LoopRan
  /\ ci.children_num = 3
  /\ Names(ci.children[1], 15) /\ Names(ci.children[2], 7) /\ Names(ci.children[3], 0)
  /\ OnFields(s) = <<0, 7, 15>>
  /\ Len(sink) = 3
  /\ \A i \in 1..3 : sink[i].status = 0
  /\ ret = 0

\* C6: when curl_easy_getinfo fails for the k-th enabled field, the value
\* lists of the k - 1 enabled fields before it have been handed over, none
\* is handed over for the k-th or a later field, no later field is queried
\* and the call returns a negative status.
C6_ExtractionFailureStops ==
  LoopRan
    => \A k \in 1..Len(getinfo) :
         curl.code[getinfo[k]] # CURLE_OK
           => /\ k = Len(getinfo)
              /\ getinfo = [i \in 1..k |-> spec_at(OnFields(s)[i]).info]
              /\ SinkInstances = InstancesOf(OnFields(s), k - 1)
              /\ ret < 0

\* Reached: the query of the third enabled field fails after two value
\* lists were handed over.
C6_Witness ==
  /\ LoopRan
  /\ Len(OnFields(s)) = 3
  /\ Len(getinfo) = 3
  /\ curl.code[getinfo[3]] # CURLE_OK
  /\ Len(sink) = 2
  /\ ret = -1

\* C7, as claimed: a status other than 0 from plugin_dispatch_values is at
\* once the result of the call, and nothing is queried or handed over after it.
C7_SinkFailurePropagates ==
  pc = "dispatched"
    => \A i \in 1..Len(sink) :
         sink[i].status # 0
           => /\ ret = sink[i].status
              /\ i = Len(sink)
              /\ Len(getinfo) = i

\* The member of struct curl_stats_s that field f is stored in.
MemberOf(f) == curl_stats_s[spec_at(f).offset + 1]

\* The value handed over for field f when the handle holds v: eight times
\* v for the two speeds, the long v as a double of the same value for the
\* sizes and counts read as integers, and v itself for every other field.
Converted(f, v) ==
  IF MemberOf(f) \in {"speed_download", "speed_upload"}
  THEN 8 * v
  ELSE IF MemberOf(f) \in {"header_size", "request_size", "redirect_count",
                           "num_connects"}
       THEN v
       ELSE v

\* C8: the i-th value list handed over belongs to the i-th field queried;
\* its type is the field's type in field_specs, its type instance the
\* prefix followed by the field's name, and its one value the converted
\* number of the handle.
C8_SampleContent ==
  LoopRan
    => /\ Len(sink) <= Len(getinfo)
       /\ \A i \in 1..Len(sink) :
            LET f == FieldOfInfo(getinfo[i])
            IN /\ IsOn(s, f)
               /\ sink[i].vl.type = spec_at(f).type
               /\ sink[i].vl.type_instance = TypeInstance(f)
               /\ sink[i].vl.values_len = 1
               /\ sink[i].vl.values = <<Converted(f, curl.value[getinfo[i]])>>

\* Reached: a duration, a bit rate and a count handed over in one call
\* with a prefix.
C8_Witness ==
  /\ LoopRan
  /\ args.instance_prefix # NULL
  /\ Len(sink) = 3
  /\ sink[1].vl.type = "duration"
  /\ sink[2].vl.type = "bitrate"
  /\ sink[2].vl.values = <<8 * curl.value["CURLINFO_SPEED_UPLOAD"]>>
  /\ sink[3].vl.type = "count"

\* C9: with the NULL that curl_stats_from_config returns for a NULL
\* configuration, or the curl_stats_t built from a configuration without
\* children, no value list is handed over; with NULL the call returns 0
\* and queries nothing.
C9_NoConfigNoSamples ==
  /\ (Built /\ ci = NULL) => s = NULL
  /\ (pc = "dispatched" /\ (ci = NULL \/ ci.children_num = 0))
       => /\ sink = <<>>
          /\ s = NULL => (ret = 0 /\ getinfo = <<>>)

\* Reached: a curl_stats_t built from a configuration without children
\* was dispatched against a handle.
C9_Witness ==
  /\ LoopRan
  /\ ci # NULL
  /\ ci.children_num = 0
  /\ sink = <<>>
  /\ ret = 0

\* C10, as claimed: a call with a curl_stats_t and a NULL handle hands
\* nothing over and returns a failure that differs from what the call
\* returns when the query of an enabled field fails.
C10_NullSourceDistinct ==
  (pc = "dispatched" /\ s # NULL /\ curl = NULL)
    => /\ sink = <<>>
       /\ ret < 0
       /\ \A h \in Handles \ {NULL} :
            \A d \in Daemons :
              LET r == curl_stats_dispatch(s, h, args, d)
              IN (/\ r.getinfo # <<>>
                  /\ h.code[r.getinfo[Len(r.getinfo)]] # CURLE_OK)
                   => r.ret # ret
====
